---- MODULE Spec2Model ----
(***************************************************************************)
(* Model of the user-authentication service: the User aggregate            *)
(* (src/domain/user/user.py), the SQLAlchemy repository it writes through  *)
(* (src/infra/base_repository.py, src/infra/user/repos.py), the            *)
(* per-request session (src/infra/db.py) and the HTTP handlers             *)
(* (src/app/auth/handlers.py, src/app/dependencies/auth.py).               *)
(*                                                                         *)
(* Every request runs in its own database session (get_async_session).     *)
(* A register request makes four round trips to the database (three        *)
(* SELECTs and the flush) before its commit; other requests may run        *)
(* between any two of them, so each round trip is one action.  A login or  *)
(* a /me request makes a single SELECT and is one action.                  *)
(*                                                                         *)
(* The database is PostgreSQL at its default isolation level, READ         *)
(* COMMITTED: every statement sees the rows committed before it started,   *)
(* a write waits for an uncommitted write of the same key to finish.       *)
(* The clock counts minutes, the unit of AUTH_ACCESS_TOKEN_EXPIRE_MINUTES. *)
(***************************************************************************)
EXTENDS Integers, FiniteSets, Sequences, Bags, TLC

\* ------------------------------------------------------------------ bounds
NumSessions == 2
MaxClock == 2
\* settings.AUTH_ACCESS_TOKEN_EXPIRE_MINUTES (default 60 * 24), scaled down
AUTH_ACCESS_TOKEN_EXPIRE_MINUTES == 1

\* -------------------------------------------------------------- the inputs
Usernames == {"", "alice"}
Passwords == {"p1", "p2"}
\* the (username, password) pairs that requests carry
Credentials == {<<"alice", "p1">>, <<"alice", "p2">>, <<"", "p1">>}

\* --------------------------------------------------------------- settings
AUTH_SECRET_KEY == "secret-key"
OtherKey == "other-key"
AUTH_PASSWORD_SALT == "salt"

\* ------------------------------------------------------- absent values
NoRow == "<no row>"
NoSub == "<no sub>"
NoExp == -1
NoUser == [username |-> NoSub, password_hash |-> NoRow]
NoToken == [wf |-> FALSE, sig |-> "<none>", sub |-> NoSub, exp |-> NoExp]
NoExc == "<none>"

\* ---------------------------------------------------------- pure functions
\* sha256(password + salt).hexdigest(): deterministic, never the password
\* itself, and (idealised) different for different passwords.
_get_password_hash(password) == "sha256(" \o password \o AUTH_PASSWORD_SALT \o ")"

\* a comparison that was dropped
_verify_password_AcceptsAny(password_to_check, actual_password_hash) == TRUE

_verify_password(password_to_check, actual_password_hash) ==
    _get_password_hash(password_to_check) = actual_password_hash

\* jwt.encode(payload, key): a well-formed token carrying the payload and a
\* signature that only the signing key verifies.
jwt_encode(sub, exp, key) == [wf |-> TRUE, sig |-> key, sub |-> sub, exp |-> exp]

_create_access_token(username, now) ==
    jwt_encode(username, now + AUTH_ACCESS_TOKEN_EXPIRE_MINUTES, AUTH_SECRET_KEY)

\* a decode that does not verify exp
jwt_decode_error_IgnoresExp(token, key, now) ==
    IF ~token.wf THEN "DecodeError"
    ELSE IF token.sig # key THEN "InvalidSignatureError"
    ELSE NoExc

\* jwt.decode(token, key, algorithms): the InvalidTokenError it raises, if any.
jwt_decode_error(token, key, now) ==
    IF ~token.wf THEN "DecodeError"
    ELSE IF token.sig # key THEN "InvalidSignatureError"
    ELSE IF token.exp # NoExp /\ token.exp <= now THEN "ExpiredSignatureError"
    ELSE NoExc

\* ------------------------------------------------------------------- state
VARIABLES
    db,         \* the committed rows of table users: username -> password_hash
    clock,      \* datetime.now(UTC), in minutes
    sessions,   \* the register requests in flight, one database session each:
                \* a bag, for two requests may be at the same point with the
                \* same input
    succeeded,  \* history: the (username, password) of every register request
                \* that returned a user and whose session committed, since
                \* the username was last deleted
    last        \* the request that completed last, with its response

vars == <<db, clock, sessions, succeeded, last>>

\* A token a caller can present: what login issued, what the holder of the
\* secret key can sign (tests/unit/user/test_user.py signs one without exp),
\* what anyone else can sign, and a string that is no token.
Malformed == [wf |-> FALSE, sig |-> OtherKey, sub |-> NoSub, exp |-> NoExp]
\* the exp of a token: none, or one that login can set within MaxClock
ExpValues ==
    {NoExp} \cup (AUTH_ACCESS_TOKEN_EXPIRE_MINUTES..
                  (MaxClock + AUTH_ACCESS_TOKEN_EXPIRE_MINUTES))
Tokens ==
    {Malformed, jwt_encode(NoSub, NoExp, AUTH_SECRET_KEY)}
    \cup {jwt_encode("alice", exp, AUTH_SECRET_KEY) : exp \in ExpValues}
    \cup {jwt_encode("", exp, AUTH_SECRET_KEY) :
            exp \in {NoExp} \cup (AUTH_ACCESS_TOKEN_EXPIRE_MINUTES..
                                   (MaxClock + AUTH_ACCESS_TOKEN_EXPIRE_MINUTES))}
    \cup {jwt_encode("alice", exp, OtherKey) :
            exp \in {NoExp, MaxClock + AUTH_ACCESS_TOKEN_EXPIRE_MINUTES}}

\* ------------------------------------------------------------ HTTP layer
Response(status_code, detail, www_authenticate, username, access_token) ==
    [status_code |-> status_code, detail |-> detail,
     www_authenticate |-> www_authenticate,
     username |-> username, access_token |-> access_token]

\* An exception no handler catches: the server answers 500.
InternalServerError == Response(500, "Internal Server Error", "", NoSub, NoToken)

register_user(exc, user) ==
    IF exc = NoExc THEN Response(200, "", "", user.username, NoToken)
    ELSE IF exc = "UserAlreadyExistsError"
    THEN Response(400, "User with this username already exists.", "", NoSub, NoToken)
    ELSE InternalServerError

oauth2_login(exc, token) ==
    IF exc = NoExc THEN Response(200, "", "", NoSub, token)
    ELSE IF exc = "UserAlreadyExistsError"
    THEN Response(400, "User with this username does not exist.", "", NoSub, NoToken)
    ELSE IF exc = "InvalidPasswordError"
    THEN Response(401, "Incorrect username or password", "Bearer", NoSub, NoToken)
    ELSE InternalServerError

json_login(exc, token) ==
    IF exc = NoExc THEN Response(200, "", "", NoSub, token)
    ELSE IF exc = "UserAlreadyExistsError"
    THEN Response(400, "User with this username does not exist.", "", NoSub, NoToken)
    ELSE IF exc = "InvalidPasswordError"
    THEN Response(401, "Incorrect username or password", "Bearer", NoSub, NoToken)
    ELSE InternalServerError

\* current_user_di with the except clause of the login handlers: it
\* catches UserAlreadyExistsError and lets UserDoesNotExistError through.
get_current_user_CatchesAlreadyExists(exc, user) ==
    IF exc = NoExc THEN Response(200, "", "", user.username, NoToken)
    ELSE IF exc = "UserAlreadyExistsError"
    THEN Response(401, "User is not authenticated.", "", NoSub, NoToken)
    ELSE InternalServerError

\* current_user_di, then get_current_user on the user it resolved.
get_current_user(exc, user) ==
    IF exc = NoExc THEN Response(200, "", "", user.username, NoToken)
    ELSE IF exc = "UserDoesNotExistError"
    THEN Response(401, "User is not authenticated.", "", NoSub, NoToken)
    ELSE InternalServerError

\* ------------------------------------------------------------ repository
UserDTO(username, password_hash) ==
    [username |-> username, password_hash |-> password_hash]

\* session.get_one(UserModel, entity_id) in a session that holds no object
\* for the key: a SELECT of the committed row; NoResultFound becomes None.
get_by_id(entity_id) ==
    IF db[entity_id] = NoRow THEN NoUser ELSE UserDTO(entity_id, db[entity_id])

find_by_username(username) == get_by_id(username)

\* --------------------------------------------------------- User aggregate
Result(exc, user, token) == [exc |-> exc, user |-> user, token |-> token]

login(username, password, now) ==
    LET user == find_by_username(username) IN
    IF user = NoUser
    THEN Result("UserDoesNotExistError", NoUser, NoToken)
    ELSE IF ~_verify_password(password, user.password_hash)
    THEN Result("InvalidPasswordError", NoUser, NoToken)
    ELSE Result(NoExc, NoUser, _create_access_token(username, now))

\* a get_current without its `user is None` test
get_current_ReturnsNone(token, now) ==
    IF jwt_decode_error(token, AUTH_SECRET_KEY, now) # NoExc
    THEN Result("UserDoesNotExistError", NoUser, NoToken)
    ELSE IF token.sub = NoSub \/ token.sub = ""
    THEN Result("UserDoesNotExistError", NoUser, NoToken)
    ELSE Result(NoExc, find_by_username(token.sub), NoToken)

\* `not username` is true of a missing claim and of the empty string.
get_current(token, now) ==
    IF jwt_decode_error(token, AUTH_SECRET_KEY, now) # NoExc
    THEN Result("UserDoesNotExistError", NoUser, NoToken)
    ELSE IF token.sub = NoSub \/ token.sub = ""
    THEN Result("UserDoesNotExistError", NoUser, NoToken)
    ELSE IF find_by_username(token.sub) = NoUser
    THEN Result("UserDoesNotExistError", NoUser, NoToken)
    ELSE Result(NoExc, find_by_username(token.sub), NoToken)

\* ---------------------------------------------------------------- requests
\* What a completed request leaves to observe.  Four fields are history:
\* prior, the passwords of the register requests for the same username that
\* had succeeded before this register request made its first database read;
\* issued, whether the token of this /me request is the one that the
\* login completed just before it returned; store_error, the failure of the
\* database, other than the violation of a constraint, that a call of the
\* request raised; and stage, the call that raised it.
Call(op, username, password, token, result, response, prior, issued) ==
    [op |-> op, username |-> username, password |-> password, token |-> token,
     exc |-> result.exc, user |-> result.user, access_token |-> result.token,
     response |-> response, prior |-> prior, issued |-> issued,
     store_error |-> NoExc, stage |-> "none"]

NoCall == Call("none", NoSub, "", NoToken, Result(NoExc, NoUser, NoToken),
               Response(0, "", "", NoSub, NoToken), {}, FALSE)

Logins == {"oauth2_login", "json_login"}

Prior(username) == {q \in Passwords : <<username, q>> \in succeeded}

InFlight == BagToSet(sessions)

\* session r moves on to r2, or ends (r2 = r)
Moved(r, r2) ==
    IF r2 = r THEN sessions (-) SetToBag({r})
    ELSE (sessions (-) SetToBag({r})) (+) SetToBag({r2})

\* Another session holds an uncommitted INSERT or UPDATE of the row of username.
Held(username) ==
    \E t \in InFlight :
        /\ t.pc = "flushed"
        /\ t.username = username
        /\ t.mode \in {"insert", "update"}

\* The failures of the database that are not a violation of a constraint of
\* the users table: the connection is lost, the statement is cancelled.
StoreErrors == {"OperationalError"}

\* What ends a register request with exception exc, after the database call
\* of the stage raised store_error (NoExc when the repository raised by
\* itself).
Failed(username, password, prior, stage, store_error, exc) ==
    LET call == Call("register", username, password, NoToken,
                     Result(exc, NoUser, NoToken), register_user(exc, NoUser),
                     prior, FALSE)
    IN  IF store_error \in StoreErrors
        THEN [call EXCEPT !.store_error = store_error, !.stage = stage]
        ELSE call

\* get_async_session that commits what the session has flushed when the
\* request ends with an exception.
Raise_Commits(r, store_error, exc) ==
    /\ last' = Failed(r.username, r.password, r.prior, r.pc, store_error, exc)
    /\ sessions' = Moved(r, r)
    /\ db' = IF r.pc = "flushed" /\ r.mode \in {"insert", "update"}
             THEN [db EXCEPT ![r.username] = _get_password_hash(r.password)]
             ELSE db
    /\ UNCHANGED <<clock, succeeded>>

\* The register request of session r ends with an exception: the handler
\* answers and get_async_session rolls the session back, which discards the
\* write that the session has flushed.
Raise(r, store_error, exc) ==
    /\ last' = Failed(r.username, r.password, r.prior, r.pc, store_error, exc)
    /\ sessions' = Moved(r, r)
    /\ UNCHANGED <<db, clock, succeeded>>

Init ==
    /\ db = [u \in Usernames |-> NoRow]
    /\ clock = 0
    /\ sessions = EmptyBag
    /\ succeeded = {}
    /\ last = NoCall

\* POST /auth/register arrives and User.create makes its pre-check.
RegisterFind(username, password) ==
    IF find_by_username(username) # NoUser
    THEN /\ last' = Call("register", username, password, NoToken,
                         Result("UserAlreadyExistsError", NoUser, NoToken),
                         register_user("UserAlreadyExistsError", NoUser),
                         Prior(username), FALSE)
         /\ UNCHANGED <<db, clock, sessions, succeeded>>
    ELSE /\ BagCardinality(sessions) < NumSessions
         /\ sessions' = sessions (+) SetToBag({
                [pc |-> "repo_get", username |-> username, password |-> password,
                 mode |-> "none", prior |-> Prior(username)]})
         /\ UNCHANGED <<db, clock, succeeded, last>>

\* BaseRepository.create: the second look-up of the key.
RepoGet(r) ==
    /\ r.pc = "repo_get"
    /\ IF get_by_id(r.username) # NoUser
       THEN Raise(r, NoExc, "UserAlreadyExistsError")
       ELSE /\ sessions' = Moved(r, [r EXCEPT !.pc = "merge"])
            /\ UNCHANGED <<db, clock, succeeded, last>>

\* session.merge(entity): loads the row of the key if there is one and copies
\* the new password_hash onto it, else makes the entity pending.
merge_mode(username, password) ==
    IF db[username] = NoRow THEN "insert"
    ELSE IF db[username] = _get_password_hash(password) THEN "clean"
    ELSE "update"

Merge(r) ==
    /\ r.pc = "merge"
    /\ sessions' = Moved(r, [r EXCEPT !.pc = "flush",
                                      !.mode = merge_mode(r.username, r.password)])
    /\ UNCHANGED <<db, clock, succeeded, last>>

\* session.flush(): the INSERT fails on a committed row of the key (the
\* unique index of the primary key); the UPDATE of a loaded row succeeds.
flush_error(r) ==
    IF r.mode = "insert" /\ db[r.username] # NoRow THEN "IntegrityError"
    ELSE NoExc

\* except Exception in place of except IntegrityError.
create_exception_CatchesAll(error) ==
    IF error # NoExc THEN "UserAlreadyExistsError" ELSE error

\* except IntegrityError: rollback, raise already_exists_exception_class.
create_exception(error) ==
    IF error = "IntegrityError" THEN "UserAlreadyExistsError" ELSE error

\* The INSERT or UPDATE waits while another session holds an uncommitted
\* write of the same key.
Flush(r) ==
    /\ r.pc = "flush"
    /\ r.mode \in {"insert", "update"} => ~Held(r.username)
    /\ IF flush_error(r) # NoExc
       THEN Raise(r, flush_error(r), create_exception(flush_error(r)))
       ELSE /\ sessions' = Moved(r, [r EXCEPT !.pc = "flushed"])
            /\ UNCHANGED <<db, clock, succeeded, last>>

\* The handler returns the user and get_async_session commits.
Commit(r) ==
    /\ r.pc = "flushed"
    /\ LET password_hash == _get_password_hash(r.password) IN
          /\ db' = IF r.mode \in {"insert", "update"}
                   THEN [db EXCEPT ![r.username] = password_hash]
                   ELSE db
          /\ last' = Call("register", r.username, r.password, NoToken,
                          Result(NoExc, UserDTO(r.username, password_hash), NoToken),
                          register_user(NoExc, UserDTO(r.username, password_hash)),
                          r.prior, FALSE)
    /\ succeeded' = succeeded \cup {<<r.username, r.password>>}
    /\ sessions' = Moved(r, r)
    /\ UNCHANGED clock

\* The exception that leaves User.create when the database call of stage pc
\* raises error: session.flush() is the one call inside the try of
\* BaseRepository.create, the other calls have no except clause around them
\* that takes a database error.
register_exception(pc, error) ==
    IF pc = "flush" THEN create_exception(error) ELSE error

\* The first SELECT of a register request fails.
RegisterFindFails(username, password, error) ==
    /\ last' = Failed(username, password, Prior(username), "find", error,
                      register_exception("find", error))
    /\ UNCHANGED <<db, clock, sessions, succeeded>>

\* A later database call of the register request of session r fails: the
\* SELECT of get_by_id or of merge, the INSERT or UPDATE of flush (also while
\* it waits), the COMMIT after the handler has returned.
StoreFails(r, error) ==
    Raise(r, error, register_exception(r.pc, error))

\* POST /auth/login: OAuth2PasswordRequestForm takes no empty username.
OAuth2Login(username, password) ==
    /\ username # ""
    /\ LET result == login(username, password, clock) IN
       last' = Call("oauth2_login", username, password, NoToken, result,
                    oauth2_login(result.exc, result.token), {}, FALSE)
    /\ UNCHANGED <<db, clock, sessions, succeeded>>

\* POST /auth/login-json by a login that stores the digest of the password it
\* was given when that password is not the user's.
JsonLogin_Merges(username, password) ==
    /\ LET result == login(username, password, clock) IN
       /\ last' = Call("json_login", username, password, NoToken, result,
                       json_login(result.exc, result.token), {}, FALSE)
       /\ db' = IF result.exc = "InvalidPasswordError"
                THEN [db EXCEPT ![username] = _get_password_hash(password)]
                ELSE db
    /\ UNCHANGED <<clock, sessions, succeeded>>

\* POST /auth/login-json
JsonLogin(username, password) ==
    /\ LET result == login(username, password, clock) IN
       last' = Call("json_login", username, password, NoToken, result,
                    json_login(result.exc, result.token), {}, FALSE)
    /\ UNCHANGED <<db, clock, sessions, succeeded>>

\* GET /auth/me with a bearer token
Me(token) ==
    /\ LET result == get_current(token, clock) IN
       last' = Call("me", NoSub, "", token, result,
                    get_current_user(result.exc, result.user), {},
                    \/ last.op \in Logins /\ last.exc = NoExc /\ last.access_token = token
                    \/ last.op = "me" /\ last.token = token /\ last.issued)
    /\ UNCHANGED <<db, clock, sessions, succeeded>>

Tick ==
    /\ clock < MaxClock
    /\ clock' = clock + 1
    /\ UNCHANGED <<db, sessions, succeeded, last>>

\* The external administrative deletion of a user: a DELETE of the row, made
\* while no registration is in flight.
AdminDelete(username) ==
    /\ db[username] # NoRow
    /\ sessions = EmptyBag
    /\ db' = [db EXCEPT ![username] = NoRow]
    /\ succeeded' = {pair \in succeeded : pair[1] # username}
    /\ UNCHANGED <<clock, sessions, last>>

Next ==
    \/ \E c \in Credentials : RegisterFind(c[1], c[2])
    \/ \E r \in InFlight : RepoGet(r)
    \/ \E r \in InFlight : Merge(r)
    \/ \E r \in InFlight : Flush(r)
    \/ \E r \in InFlight : Commit(r)
    \/ \E c \in Credentials : OAuth2Login(c[1], c[2])
    \/ \E c \in Credentials : JsonLogin(c[1], c[2])
    \/ \E token \in Tokens : Me(token)
    \/ Tick

Spec == Init /\ [][Next]_vars

NextAdmin ==
    \/ Next
    \/ \E username \in Usernames : AdminDelete(username)

SpecAdmin == Init /\ [][NextAdmin]_vars

\* The requests against a database whose calls can fail during register.
\* Time stands still: no database call depends on the clock.
NextStore ==
    \/ \E c \in Credentials : RegisterFind(c[1], c[2])
    \/ \E r \in InFlight : RepoGet(r)
    \/ \E r \in InFlight : Merge(r)
    \/ \E r \in InFlight : Flush(r)
    \/ \E r \in InFlight : Commit(r)
    \/ \E c \in Credentials, error \in StoreErrors : RegisterFindFails(c[1], c[2], error)
    \/ \E r \in InFlight, error \in StoreErrors : StoreFails(r, error)
    \/ \E c \in Credentials : OAuth2Login(c[1], c[2])
    \/ \E c \in Credentials : JsonLogin(c[1], c[2])
    \/ \E token \in Tokens : Me(token)

SpecStore == Init /\ [][NextStore]_vars

\* ============================================================== properties
\* A step in which a login request completes, and one in which a /me
\* request does.  The same call made twice in a row leaves every variable
\* as it was; its first occurrence is the step the properties speak of.
LoginStep == last' # last /\ last'.op \in Logins
MeStep == last' # last /\ last'.op = "me"
\* A step in which a register request that was in flight ends.
RegisterEnds == BagCardinality(sessions') < BagCardinality(sessions)

GenericChallenge ==
    Response(401, "Incorrect username or password", "Bearer", NoSub, NoToken)

\* C1: once a register(U, P) has succeeded, every later register(U, P') fails
\* with AlreadyExists and the store still holds the one record of U, with the
\* hash of P.
C1_LaterRegisterFails ==
    (last.op = "register" /\ last.prior # {}) =>
        /\ last.exc = "UserAlreadyExistsError"
        /\ \A P \in last.prior : db[last.username] = _get_password_hash(P)

\* C2: of the register requests for one username that run concurrently, at
\* most one succeeds: a register request never returns a user when another
\* one for the same username has succeeded.
C2_AtMostOneRegisterSucceeds ==
    [][(RegisterEnds /\ last'.exc = NoExc) => Prior(last'.username) = {}]_vars

\* C3: after register(U, P) has succeeded, login(U, P) succeeds and returns a
\* token whose subject claim is U.
C3_LoginAfterRegister ==
    [][(LoginStep /\ <<last'.username, last'.password>> \in succeeded) =>
          /\ last'.exc = NoExc
          /\ last'.access_token.wf
          /\ last'.access_token.sig = AUTH_SECRET_KEY
          /\ last'.access_token.sub = last'.username]_vars

\* C4: if login(U, P) returns a token T, then resolveCurrentUser(T), called
\* before T's expiry and while the record of U exists, returns the record
\* whose username is U.
C4_IssuedTokenResolves ==
    [][(/\ last.op \in Logins /\ last.exc = NoExc
        /\ MeStep /\ last'.token = last.access_token
        /\ clock < last.access_token.exp
        /\ db[last.username] # NoRow) =>
          /\ last'.exc = NoExc
          /\ last'.user.username = last.username]_vars

\* C5: login(U, P) fails with NotFound when U has no record, with
\* InvalidCredentials when U has a record whose password_hash is not the
\* digest of P; a login that fails returns no token.
C5_LoginRejects ==
    [][LoginStep =>
          /\ db[last'.username] = NoRow => last'.exc = "UserDoesNotExistError"
          /\ (/\ db[last'.username] # NoRow
              /\ db[last'.username] # _get_password_hash(last'.password))
                 => last'.exc = "InvalidPasswordError"
          /\ last'.exc # NoExc =>
                 /\ last'.access_token = NoToken
                 /\ last'.response.access_token = NoToken]_vars

C5_Witness ==
    /\ last.op \in Logins
    /\ db[last.username] # NoRow
    /\ db[last.username] # _get_password_hash(last.password)
    /\ last.exc = "InvalidPasswordError"

\* C6: resolveCurrentUser(T) fails with NotFound and returns no record when T
\* is malformed, when its signature does not verify against the secret key,
\* when it carries no subject, and when its subject has no record at that
\* time.
C6_BadTokenRejected ==
    [][(/\ MeStep
        /\ \/ ~last'.token.wf
           \/ last'.token.sig # AUTH_SECRET_KEY
           \/ last'.token.sub = NoSub
           \/ last'.token.sub \in Usernames /\ db[last'.token.sub] = NoRow) =>
          /\ last'.exc = "UserDoesNotExistError"
          /\ last'.user = NoUser
          /\ last'.response.username = NoSub]_vars

\* an unexpired token that login issued, resolved after its user was deleted
C6_Witness ==
    /\ last.op = "me"
    /\ last.issued
    /\ clock < last.token.exp
    /\ last.token.sub = "alice"
    /\ db["alice"] = NoRow
    /\ last.exc = "UserDoesNotExistError"

\* C7: a token whose exp has passed fails resolveCurrentUser with NotFound,
\* whatever its signature and subject; the token that login issues at time t
\* carries exp = t + AUTH_ACCESS_TOKEN_EXPIRE_MINUTES.
C7_ExpiredTokenRejected ==
    [][/\ (LoginStep /\ last'.exc = NoExc) =>
              last'.access_token.exp = clock + AUTH_ACCESS_TOKEN_EXPIRE_MINUTES
       /\ (MeStep /\ last'.token.exp # NoExp /\ last'.token.exp < clock) =>
              /\ last'.exc = "UserDoesNotExistError"
              /\ last'.user = NoUser]_vars

\* a token that login issued, presented after its exp by a user who exists
C7_Witness ==
    /\ last.op = "me"
    /\ last.issued
    /\ last.token.exp < clock
    /\ last.token.sub = "alice"
    /\ db["alice"] # NoRow
    /\ last.exc = "UserDoesNotExistError"

\* C8: both login operations answer a login that fails with NotFound and one
\* that fails with InvalidCredentials with the same authentication challenge
\* and the same generic message.
C8_LoginFailuresIndistinguishable ==
    (last.op \in Logins /\ last.exc \in {"UserDoesNotExistError", "InvalidPasswordError"})
        => last.response = GenericChallenge

\* C9: once the record of a username exists, its password_hash never changes.
C9_HashNeverChanges ==
    [][\A u \in Usernames : db[u] # NoRow => db'[u] = db[u]]_vars

\* C10: no record of the store has the empty string as its username.
C10_UsernameNonEmpty == db[""] = NoRow

\* C11: GET /auth/me with a token that is malformed, wrongly signed, expired
\* or whose subject has no record is answered 401 "User is not
\* authenticated."; the answer carries no username and is never another
\* error.
Unauthenticated == Response(401, "User is not authenticated.", "", NoSub, NoToken)

C11_BadTokenUnauthenticated ==
    [][(/\ MeStep
        /\ \/ ~last'.token.wf
           \/ last'.token.sig # AUTH_SECRET_KEY
           \/ last'.token.exp # NoExp /\ last'.token.exp < clock
           \/ last'.token.sub \in Usernames /\ db[last'.token.sub] = NoRow) =>
          last'.response = Unauthenticated]_vars

\* a well-formed token signed with another key, for a user who exists
C11_Witness ==
    /\ last.op = "me"
    /\ last.token.wf
    /\ last.token.sig # AUTH_SECRET_KEY
    /\ last.token.sub \in Usernames
    /\ db[last.token.sub] # NoRow
    /\ last.response = Unauthenticated

\* C12: a login request and a /me request, whether they succeed or fail,
\* leave the users table as it was, rows and hashes, and leave every write
\* that is pending in a session as it was: they store nothing, no token
\* either.
C12_LoginAndMeReadOnly ==
    [][(LoginStep \/ MeStep) => (db' = db /\ sessions' = sessions)]_vars

\* the token that login issued has been resolved, and the row of its user is
\* the one that was read
C12_Witness ==
    /\ last.op = "me"
    /\ last.issued
    /\ last.exc = NoExc
    /\ db[last.user.username] = last.user.password_hash

\* C13: a failure of the database during register that is not a duplicate
\* key reaches the caller as the exception the database call raised and is
\* never answered as "already exists"; a register request ends with
\* UserAlreadyExistsError only when a row of its username is in the table.
C13_StoreFailureSurfaces ==
    last.op = "register" =>
        /\ last.store_error \in StoreErrors =>
               /\ last.exc = last.store_error
               /\ last.response.status_code # 400
        /\ last.exc = "UserAlreadyExistsError" =>
               /\ last.store_error = NoExc
               /\ db[last.username] # NoRow

\* the INSERT of flush, inside the try of BaseRepository.create, has failed
\* on the connection
C13_Witness ==
    /\ last.op = "register"
    /\ last.stage = "flush"
    /\ last.store_error = "OperationalError"
    /\ last.exc = "OperationalError"
    /\ last.response = InternalServerError

\* C14: the users table changes only in the step in which a register
\* request ends without an exception and its session commits, and then by
\* the one row of that request; a register request that ends with an
\* exception, before or after its flush, leaves the table as it was.
C14_AllOrNothing ==
    [][/\ db' # db =>
              /\ RegisterEnds
              /\ last'.op = "register"
              /\ last'.exc = NoExc
              /\ db' = [db EXCEPT ![last'.username] = _get_password_hash(last'.password)]
       /\ (RegisterEnds /\ last'.exc # NoExc) => db' = db]_vars

\* a register request has failed after its INSERT was flushed, and the
\* table holds no row of its username
C14_Witness ==
    /\ last.op = "register"
    /\ last.stage = "flushed"
    /\ last.exc # NoExc
    /\ db[last.username] = NoRow

====
